---- MODULE Spec2Model ----
(***************************************************************************)
(* Job orchestration of the bariatric-surgery digital twin backend.       *)
(*                                                                         *)
(* Simulation jobs: backend/api/simulations.py                             *)
(*   start_simulation, run_simulation_background, update_progress,         *)
(*   get_simulation_status, with the checkpoints of                        *)
(*   FEMSimulator.run_simulation (services/simulation/fem_solver.py).      *)
(* Scan jobs: backend/api/scans.py                                         *)
(*   upload_scan, process_scan_background, with run_segmentation           *)
(*   (services/segmentation/segmenter.py).                                 *)
(*                                                                         *)
(* The database is a store of committed rows keyed by job identifier.      *)
(* Every background run owns one SQLAlchemy session (SessionLocal,         *)
(* autoflush=False): objects it changed or added stay in the session       *)
(* until db.commit() flushes them; a commit that raises rolls the          *)
(* transaction back and leaves the session inactive, so that the next      *)
(* statement on it raises until db.rollback() is called (the code never    *)
(* calls it).  A record carries the fields the code assigns; a field the   *)
(* code has not assigned and the model class gives no default is NULL.     *)
(* Progress values are in tenths (0.1 -> 1, 1.0 -> 10).                    *)
(*                                                                         *)
(* Services called by the jobs and by backend/api/predictions.py:          *)
(*   identify_stomach_regions and generate_mesh_from_mask                  *)
(*   (services/segmentation/segmenter.py),                                 *)
(*   FEMSimulator.run_simulation and run_fem_simulation                    *)
(*   (services/simulation/fem_solver.py),                                  *)
(*   predict_leak_risk and recommend_stapler (services/ai/predictor.py).   *)
(* Each has a specification of its own, in which it is called with         *)
(* arguments drawn from finite sets; its arithmetic is done on exact       *)
(* fractions, except for the region boundaries, whose double arithmetic    *)
(* is followed where it differs from the exact one.                        *)
(***************************************************************************)
EXTENDS Integers, Sequences, FiniteSets, TLC

\* ---------------------------------------------------------------- bounds
MaxSims == 2       \* start-simulation requests served
MaxScans == 2      \* upload-scan requests served
MaxFaults == 1     \* exceptions the environment injects into one run

VARIABLES
    simDb,      \* committed Simulation rows, by simulation id
    resDb,      \* number of committed SimulationResult rows, by simulation id
    simRun,     \* background tasks added by start_simulation, by slot
    nSim,       \* start-simulation requests served so far
    lastPoll,   \* last SimulationStatusResponse returned
    scanDb,     \* committed Scan rows (status), by scan id
    segDb,      \* committed Segmentation rows, by scan id
    meshDb,     \* committed Mesh rows, by scan id
    scanRun,    \* background tasks added by upload_scan, by slot
    nScan,      \* upload-scan requests served so far
    segCall,    \* one call of identify_stomach_regions: mask and region map
    femCall,    \* one call of FEMSimulator.run_simulation: arguments and result
    riskCall,   \* one call of LeakRiskPredictor.predict: arguments and result
    catalog,    \* the list StaplerRecommender.STAPLER_OPTIONS, by stapler names
    recLog      \* results returned by recommend_stapler so far, by arguments

vars == <<simDb, resDb, simRun, nSim, lastPoll, scanDb, segDb, meshDb, scanRun, nScan,
          segCall, femCall, riskCall, catalog, recLog>>
simVars == <<simDb, resDb, simRun, nSim, lastPoll>>
scanVars == <<scanDb, segDb, meshDb, scanRun, nScan>>
fnVars == <<segCall, femCall, riskCall, catalog, recLog>>
jobVars == <<simVars, scanVars>>

SimIds == 1..MaxSims
ScanIds == 1..MaxScans

NULL == -1              \* a NULL numeric column
NoMsg == "NULL"         \* a NULL error_message
Absent == "absent"      \* no row under this id

\* ------------------------------------------------------------ simulations

NoRow == [status |-> Absent, progress |-> NULL, error_message |-> NoMsg]

\* Simulation(..., status="pending"): progress and error_message are not set
NewSimulation == [status |-> "pending", progress |-> NULL, error_message |-> NoMsg]

\* a session right after SessionLocal()
NewSession == [loaded |-> FALSE, obj |-> NoRow, added |-> FALSE, txn |-> "active"]

IdleRun == [pc |-> "unused", job |-> 0, db |-> NewSession, k |-> 0,
            written |-> <<>>, faults |-> 0, exc |-> NoMsg, raised |-> FALSE,
            computed |-> 0]

\* progress_callback arguments of FEMSimulator.run_simulation, in call order
CheckpointsSwapped == <<2, 6, 4, 8, 10>>
Checkpoints == <<2, 4, 6, 8, 10>>

\* sim.progress = 0.1 when the run starts; sim.progress = 1.0 with "completed"
StartProgress == 1
FinalProgress == 10

\* uuid4 primary key of the n-th record created: never one used before
NewSimIdReused(n) == 1
NewSimId(n) == n + 1

\* the environment may make the current step raise
MayRaise(r) == IF r.faults < MaxFaults THEN {FALSE, TRUE} ELSE {FALSE}

\* db.query(Simulation).filter(id == j).first() in the run's session:
\* the instance already in the session, else the committed row
Query(db, j) == IF db.loaded THEN db
                ELSE [db EXCEPT !.loaded = TRUE, !.obj = simDb[j]]

\* a flush that raises: rollback, pending objects expunged, session inactive
FlushFailed(db, j) == [db EXCEPT !.txn = "inactive", !.added = FALSE,
                                 !.loaded = FALSE, !.obj = NoRow]

\* control reaches "except Exception as e" with message msg
Caught(r, msg, db) == [r EXCEPT !.pc = "handler", !.exc = msg, !.raised = TRUE,
                                !.faults = @ + 1, !.db = db]

\* POST /run-simulation: commit the record, add the background task, return
start_simulation ==
    /\ nSim < MaxSims
    /\ LET id == NewSimId(nSim)
           t == nSim + 1
       IN /\ simDb' = [simDb EXCEPT ![id] = NewSimulation]
          /\ simRun' = [simRun EXCEPT ![t] = [IdleRun EXCEPT !.pc = "scheduled", !.job = id]]
    /\ nSim' = nSim + 1
    /\ UNCHANGED <<resDb, lastPoll, scanVars, fnVars>>

\* the task starts: db = SessionLocal()
sim_open_session(t) ==
    /\ simRun[t].pc = "scheduled"
    /\ simRun' = [simRun EXCEPT ![t] = [@ EXCEPT !.pc = "query", !.db = NewSession]]
    /\ UNCHANGED <<simDb, resDb, nSim, lastPoll, scanVars, fnVars>>

\* sim = db.query(Simulation)...first()
sim_query(t) ==
    LET r == simRun[t] IN
    /\ r.pc = "query"
    /\ \E raise \in MayRaise(r) :
          simRun' = [simRun EXCEPT ![t] =
              IF raise THEN Caught(r, "query failed", r.db)
              ELSE [r EXCEPT !.pc = "mark_running", !.db = Query(r.db, r.job)]]
    /\ UNCHANGED <<simDb, resDb, nSim, lastPoll, scanVars, fnVars>>

\* sim.status = "running"; sim.progress = 0.1; db.commit()
sim_mark_running(t) ==
    LET r == simRun[t]
        db == [r.db EXCEPT !.obj.status = "running", !.obj.progress = StartProgress]
        w == Append(r.written, StartProgress)
    IN
    /\ r.pc = "mark_running"
    /\ \E raise \in MayRaise(r) :
          IF raise
          THEN /\ simRun' = [simRun EXCEPT ![t] =
                      [Caught(r, "commit failed", FlushFailed(db, r.job)) EXCEPT !.written = w]]
               /\ UNCHANGED simDb
          ELSE /\ simRun' = [simRun EXCEPT ![t] =
                      [r EXCEPT !.pc = "simulate", !.db = db, !.k = 1, !.written = w,
                                !.computed = @ + 1]]
               /\ simDb' = [simDb EXCEPT ![r.job] = db.obj]
    /\ UNCHANGED <<resDb, nSim, lastPoll, scanVars, fnVars>>

\* progress_callback(p) -> update_progress(db, simulation_id, p):
\* query, sim.progress = p, db.commit()
\* an update_progress whose query has no filter on the identifier:
\* first() gives the first record of the table
update_progress_unfiltered(t) ==
    LET r == simRun[t]
        p == Checkpoints[r.k]
        first == 1
        db == [r.db EXCEPT !.loaded = TRUE, !.obj = [simDb[first] EXCEPT !.progress = p]]
    IN
    /\ r.pc = "simulate"
    /\ simRun' = [simRun EXCEPT ![t] =
            [r EXCEPT !.db = db, !.written = Append(@, p), !.k = @ + 1,
                      !.pc = IF r.k = Len(Checkpoints) THEN "build_result" ELSE "simulate"]]
    /\ simDb' = [simDb EXCEPT ![first] = db.obj]
    /\ UNCHANGED <<resDb, nSim, lastPoll, scanVars, fnVars>>
update_progress(t) ==
    LET r == simRun[t]
        p == Checkpoints[r.k]
        q == Query(r.db, r.job)
        db == [q EXCEPT !.obj.progress = p]
        w == Append(r.written, p)
    IN
    /\ r.pc = "simulate"
    /\ \E raise \in MayRaise(r) :
          IF raise
          THEN /\ simRun' = [simRun EXCEPT ![t] =
                      [Caught(r, "commit failed", FlushFailed(db, r.job)) EXCEPT !.written = w]]
               /\ UNCHANGED simDb
          ELSE /\ simRun' = [simRun EXCEPT ![t] =
                      [r EXCEPT !.db = db, !.written = w,
                                !.k = @ + 1,
                                !.pc = IF r.k = Len(Checkpoints) THEN "build_result" ELSE "simulate"]]
               /\ simDb' = [simDb EXCEPT ![r.job] = db.obj]
    /\ UNCHANGED <<resDb, nSim, lastPoll, scanVars, fnVars>>

\* the simulator's computation between two checkpoints raises
sim_compute_raises(t) ==
    LET r == simRun[t] IN
    /\ r.pc = "simulate"
    /\ TRUE \in MayRaise(r)
    /\ simRun' = [simRun EXCEPT ![t] = Caught(r, "simulation failed", r.db)]
    /\ UNCHANGED <<simDb, resDb, nSim, lastPoll, scanVars, fnVars>>

\* sim_result = SimulationResult(...); db.add(sim_result)
sim_build_result(t) ==
    LET r == simRun[t] IN
    /\ r.pc = "build_result"
    /\ \E raise \in MayRaise(r) :
          simRun' = [simRun EXCEPT ![t] =
              IF raise THEN Caught(r, "result failed", r.db)
              ELSE [r EXCEPT !.pc = "mark_completed", !.db.added = TRUE]]
    /\ UNCHANGED <<simDb, resDb, nSim, lastPoll, scanVars, fnVars>>

\* sim.status = "completed"; sim.progress = 1.0; sim.completed_at = utcnow()
sim_mark_completed(t) ==
    LET r == simRun[t]
        db == [r.db EXCEPT !.obj.status = "completed", !.obj.progress = FinalProgress]
    IN
    /\ r.pc = "mark_completed"
    /\ \E raise \in MayRaise(r) :
          simRun' = [simRun EXCEPT ![t] =
              IF raise THEN Caught(r, "completion failed", r.db)
              ELSE [r EXCEPT !.pc = "commit", !.db = db,
                             !.written = Append(@, FinalProgress)]]
    /\ UNCHANGED <<simDb, resDb, nSim, lastPoll, scanVars, fnVars>>

\* db.commit() of the completed job and its result
sim_commit(t) ==
    LET r == simRun[t] IN
    /\ r.pc = "commit"
    /\ \E raise \in MayRaise(r) :
          IF raise
          THEN /\ simRun' = [simRun EXCEPT ![t] =
                      Caught(r, "commit failed", FlushFailed(r.db, r.job))]
               /\ UNCHANGED <<simDb, resDb>>
          ELSE /\ simRun' = [simRun EXCEPT ![t] =
                      [r EXCEPT !.pc = "done", !.db.added = FALSE]]
               /\ simDb' = [simDb EXCEPT ![r.job] = r.db.obj]
               /\ resDb' = [resDb EXCEPT ![r.job] = @ + (IF r.db.added THEN 1 ELSE 0)]
    /\ UNCHANGED <<nSim, lastPoll, scanVars, fnVars>>

\* what the handler assigns: sim.status = "failed"; sim.error_message = str(e)
HandlerUpdateRetry(obj, msg) == [obj EXCEPT !.status = "pending", !.error_message = msg]
HandlerUpdate(obj, msg) == [obj EXCEPT !.status = "failed", !.error_message = msg]

\* except Exception as e: query, mark failed, db.commit(); finally db.close()
sim_handler(t) ==
    LET r == simRun[t]
        q == Query(r.db, r.job)
        db == [q EXCEPT !.obj = HandlerUpdate(q.obj, r.exc)]
    IN
    /\ r.pc = "handler"
    /\ IF r.db.txn = "inactive"
       THEN \* the handler's query raises PendingRollbackError out of the task
            /\ simRun' = [simRun EXCEPT ![t] = [r EXCEPT !.pc = "crashed"]]
            /\ UNCHANGED <<simDb, resDb>>
       ELSE \E raise \in MayRaise(r) :
              IF raise
              THEN /\ simRun' = [simRun EXCEPT ![t] =
                          [r EXCEPT !.pc = "crashed", !.faults = @ + 1]]
                   /\ UNCHANGED <<simDb, resDb>>
              ELSE /\ simRun' = [simRun EXCEPT ![t] =
                          [r EXCEPT !.pc = "done", !.db = [db EXCEPT !.added = FALSE]]]
                   /\ simDb' = [simDb EXCEPT ![r.job] = db.obj]
                   /\ resDb' = [resDb EXCEPT ![r.job] = @ + (IF db.added THEN 1 ELSE 0)]
    /\ UNCHANGED <<nSim, lastPoll, scanVars, fnVars>>

run_simulation_background(t) ==
    \/ sim_open_session(t)
    \/ sim_query(t)
    \/ sim_mark_running(t)
    \/ update_progress(t)
    \/ sim_compute_raises(t)
    \/ sim_build_result(t)
    \/ sim_mark_completed(t)
    \/ sim_commit(t)
    \/ sim_handler(t)

\* GET /simulation-status/{id}, in a session of its own
StatusResponse(id) ==
    [id |-> id, status |-> simDb[id].status, progress |-> simDb[id].progress,
     error_message |-> simDb[id].error_message, has_results |-> resDb[id] > 0]

get_simulation_status(id) ==
    /\ simDb[id] # NoRow
    /\ lastPoll' = StatusResponse(id)
    /\ UNCHANGED <<simDb, resDb, simRun, nSim, scanVars, fnVars>>

\* ------------------------------------------------------------------ scans

\* Scan(..., status="uploaded"), also the column default
NewScanStatus == "uploaded"

NewScanSession == [loaded |-> FALSE, status |-> Absent, addedSeg |-> FALSE,
                   addedMesh |-> FALSE, txn |-> "active"]

NoSegResult == [raised |-> FALSE, returned |-> FALSE, mask_path |-> "NULL",
                mesh_path |-> "NULL", mesh |-> "none", vertex_count |-> 0,
                face_count |-> 0]

IdleScanRun == [pc |-> "unused", job |-> 0, db |-> NewScanSession, faults |-> 0,
                raised |-> FALSE, seg |-> NoSegResult]

\* uuid.uuid4() of the n-th upload
NewScanId(n) == n + 1

\* what can go wrong under run_segmentation
SegEnv == [load : {"ok", "fails"},
           skimage : {"ok", "missing", "error"},
           scipy : {"ok", "missing"},
           save : {"ok", "fails"}]

\* StomachSegmenter.segment: no model -> synthetic mask; inference that
\* raises is caught and replaced by the synthetic mask
segment(modelLoaded, inferenceRaises) ==
    IF ~modelLoaded THEN "synthetic"
    ELSE IF inferenceRaises THEN "synthetic" ELSE "model"

\* generate_mesh_from_mask: only ImportError is caught
generate_mesh_from_mask(skimage) ==
    CASE skimage = "ok" ->
            [raised |-> FALSE, source |-> "marching_cubes", vertex_count |-> 0, face_count |-> 0]
      [] skimage = "missing" ->
            [raised |-> FALSE, source |-> "dummy", vertex_count |-> 1000, face_count |-> 2000]
      [] OTHER ->
            [raised |-> TRUE, source |-> "none", vertex_count |-> 0, face_count |-> 0]

\* run_segmentation(volume_path) under environment e
run_segmentation(e) ==
    LET \* np.load in try/except: any failure -> random volume
        volume == IF e.load = "ok" THEN "loaded" ELSE "random"
        \* StomachSegmenter() has no model_path: model is None
        mask == segment(FALSE, FALSE)
        m == generate_mesh_from_mask(e.skimage)
    IN IF m.raised THEN [NoSegResult EXCEPT !.raised = TRUE]
       \* "from scipy import ndimage" stands outside any try
       ELSE IF e.scipy = "missing" THEN [NoSegResult EXCEPT !.raised = TRUE]
       \* np.save / np.savez in try/except: paths become None
       ELSE [raised |-> FALSE, returned |-> TRUE,
             mask_path |-> IF e.save = "ok" THEN "file" ELSE "NULL",
             mesh_path |-> IF e.save = "ok" THEN "file" ELSE "NULL",
             mesh |-> m.source, vertex_count |-> m.vertex_count,
             face_count |-> m.face_count]

ScanQuery(db, j) == IF db.loaded THEN db
                    ELSE [db EXCEPT !.loaded = TRUE, !.status = scanDb[j]]

ScanFlushFailed(db) == [db EXCEPT !.txn = "inactive", !.addedSeg = FALSE,
                                  !.addedMesh = FALSE, !.loaded = FALSE,
                                  !.status = Absent]

ScanCaught(r, db) == [r EXCEPT !.pc = "handler", !.raised = TRUE,
                               !.faults = @ + 1, !.db = db]

\* POST /upload-scan: commit the record, add the background task, return
upload_scan ==
    /\ nScan < MaxScans
    /\ LET id == NewScanId(nScan)
           t == nScan + 1
       IN /\ scanDb' = [scanDb EXCEPT ![id] = NewScanStatus]
          /\ scanRun' = [scanRun EXCEPT ![t] = [IdleScanRun EXCEPT !.pc = "scheduled", !.job = id]]
    /\ nScan' = nScan + 1
    /\ UNCHANGED <<segDb, meshDb, simVars, fnVars>>

scan_open_session(t) ==
    /\ scanRun[t].pc = "scheduled"
    /\ scanRun' = [scanRun EXCEPT ![t] = [@ EXCEPT !.pc = "query", !.db = NewScanSession]]
    /\ UNCHANGED <<scanDb, segDb, meshDb, nScan, simVars, fnVars>>

\* scan = db.query(Scan)...first()
scan_query(t) ==
    LET r == scanRun[t] IN
    /\ r.pc = "query"
    /\ \E raise \in MayRaise(r) :
          scanRun' = [scanRun EXCEPT ![t] =
              IF raise THEN ScanCaught(r, r.db)
              ELSE [r EXCEPT !.pc = "mark_processing", !.db = ScanQuery(r.db, r.job)]]
    /\ UNCHANGED <<scanDb, segDb, meshDb, nScan, simVars, fnVars>>

\* scan.status = s; db.commit()
ScanSetStatus(t, from, s, to) ==
    LET r == scanRun[t]
        db == [r.db EXCEPT !.status = s]
    IN
    /\ r.pc = from
    /\ \E raise \in MayRaise(r) :
          IF raise
          THEN /\ scanRun' = [scanRun EXCEPT ![t] = ScanCaught(r, ScanFlushFailed(db))]
               /\ UNCHANGED <<scanDb, segDb, meshDb>>
          ELSE /\ scanRun' = [scanRun EXCEPT ![t] =
                      [r EXCEPT !.pc = to, !.db = [db EXCEPT !.addedSeg = FALSE, !.addedMesh = FALSE]]]
               /\ scanDb' = [scanDb EXCEPT ![r.job] = s]
               /\ segDb' = [segDb EXCEPT ![r.job] = @ + (IF db.addedSeg THEN 1 ELSE 0)]
               /\ meshDb' = [meshDb EXCEPT ![r.job] = @ + (IF db.addedMesh THEN 1 ELSE 0)]
    /\ UNCHANGED <<nScan, simVars, fnVars>>

scan_mark_processing(t) == ScanSetStatus(t, "mark_processing", "processing", "dicom")

\* processed_path = process_dicom_upload(scan.file_path)
scan_process_dicom(t) ==
    LET r == scanRun[t] IN
    /\ r.pc = "dicom"
    /\ \E raise \in MayRaise(r) :
          scanRun' = [scanRun EXCEPT ![t] =
              IF raise THEN ScanCaught(r, r.db)
              ELSE [r EXCEPT !.pc = "mark_segmenting"]]
    /\ UNCHANGED <<scanDb, segDb, meshDb, nScan, simVars, fnVars>>

scan_mark_segmenting(t) == ScanSetStatus(t, "mark_segmenting", "segmenting", "segmentation")

\* segmentation_result = run_segmentation(processed_path)
scan_run_segmentation(t) ==
    LET r == scanRun[t] IN
    /\ r.pc = "segmentation"
    /\ \E e \in SegEnv :
          LET res == run_segmentation(e) IN
          scanRun' = [scanRun EXCEPT ![t] =
              IF res.raised THEN [ScanCaught(r, r.db) EXCEPT !.seg = res]
              ELSE [r EXCEPT !.pc = "build_segmentation", !.seg = res]]
    /\ UNCHANGED <<scanDb, segDb, meshDb, nScan, simVars, fnVars>>

\* segmentation = Segmentation(...); db.add(segmentation)
scan_build_segmentation(t) ==
    LET r == scanRun[t] IN
    /\ r.pc = "build_segmentation"
    /\ \E raise \in MayRaise(r) :
          scanRun' = [scanRun EXCEPT ![t] =
              IF raise THEN ScanCaught(r, r.db)
              ELSE [r EXCEPT !.pc = "build_mesh", !.db.addedSeg = TRUE]]
    /\ UNCHANGED <<scanDb, segDb, meshDb, nScan, simVars, fnVars>>

\* mesh = Mesh(...); db.add(mesh)
scan_build_mesh(t) ==
    LET r == scanRun[t] IN
    /\ r.pc = "build_mesh"
    /\ \E raise \in MayRaise(r) :
          scanRun' = [scanRun EXCEPT ![t] =
              IF raise THEN ScanCaught(r, r.db)
              ELSE [r EXCEPT !.pc = "mark_completed", !.db.addedMesh = TRUE]]
    /\ UNCHANGED <<scanDb, segDb, meshDb, nScan, simVars, fnVars>>

scan_mark_completed(t) == ScanSetStatus(t, "mark_completed", "completed", "done")

\* what the handler assigns: scan.status = "error"
ScanHandlerStatusRetry == "uploaded"
ScanHandlerStatus == "error"

\* except Exception as e: query, mark error, db.commit(); finally db.close()
scan_handler(t) ==
    LET r == scanRun[t]
        q == ScanQuery(r.db, r.job)
        db == [q EXCEPT !.status = ScanHandlerStatus]
    IN
    /\ r.pc = "handler"
    /\ IF r.db.txn = "inactive"
       THEN /\ scanRun' = [scanRun EXCEPT ![t] = [r EXCEPT !.pc = "crashed"]]
            /\ UNCHANGED <<scanDb, segDb, meshDb>>
       ELSE \E raise \in MayRaise(r) :
              IF raise
              THEN /\ scanRun' = [scanRun EXCEPT ![t] =
                          [r EXCEPT !.pc = "crashed", !.faults = @ + 1]]
                   /\ UNCHANGED <<scanDb, segDb, meshDb>>
              ELSE /\ scanRun' = [scanRun EXCEPT ![t] =
                          [r EXCEPT !.pc = "done",
                                    !.db = [db EXCEPT !.addedSeg = FALSE, !.addedMesh = FALSE]]]
                   /\ scanDb' = [scanDb EXCEPT ![r.job] = db.status]
                   /\ segDb' = [segDb EXCEPT ![r.job] = @ + (IF db.addedSeg THEN 1 ELSE 0)]
                   /\ meshDb' = [meshDb EXCEPT ![r.job] = @ + (IF db.addedMesh THEN 1 ELSE 0)]
    /\ UNCHANGED <<nScan, simVars, fnVars>>

process_scan_background(t) ==
    \/ scan_open_session(t)
    \/ scan_query(t)
    \/ scan_mark_processing(t)
    \/ scan_process_dicom(t)
    \/ scan_mark_segmenting(t)
    \/ scan_run_segmentation(t)
    \/ scan_build_segmentation(t)
    \/ scan_build_mesh(t)
    \/ scan_mark_completed(t)
    \/ scan_handler(t)

\* ------------------------------------------------- region identification
\* services/segmentation/segmenter.py

MaxDepth == 4      \* slices of a mask along axis 0
MaxPlane == 2      \* voxels of one slice

Voxels == (0 .. MaxDepth - 1) \X (0 .. MaxPlane - 1)

\* a binary mask, given by its foreground voxels <<z, i>>
Masks == SUBSET Voxels

\* masks of a deeper volume whose foreground fills the slices lo .. hi
MaxSlice == 92
Slab(lo, hi) == {<<z, 0>> : z \in lo .. hi}
Slabs == {Slab(lo, hi) : lo \in 0 .. 2, hi \in 80 .. MaxSlice - 1}

MinOf(S) == CHOOSE x \in S : \A y \in S : x <= y
MaxOf(S) == CHOOSE x \in S : \A y \in S : x >= y

\* int() of a non-negative number given in tenths
IntOfTenths(x10) == x10 \div 10

\* the power of two p with p < n <= 2p, for n >= 2: the doubles of [p, 2p)
\* lie p * 2^-52 apart
RECURSIVE BinadeOf(_, _)
BinadeOf(n, p) == IF 2 * p < n THEN BinadeOf(n, 2 * p) ELSE p

\* the doubles 0.3 and 0.7 fall short of three and seven tenths by 0.2 and
\* 0.8 of 2^-54
DoubleShortfall(tenths) == IF tenths = 7 THEN 8 ELSE 2

\* int(z_min + z_range * c), c the double 0.3 or 0.7, in double arithmetic.
\* When z_range * tenths / 10 is a whole number n, the product is the double
\* nearest to n less z_range times the shortfall of c: the double below n when
\* that lies more than half a spacing under n.  Adding z_min keeps the double
\* below a whole number only while the sum stays in the binade of n.
IntOfSum(z_min, z_range, tenths) ==
    LET exact10 == 10 * z_min + tenths * z_range
        n == (tenths * z_range) \div 10
        p == BinadeOf(n, 1)
        below == /\ z_range > 0
                 /\ (tenths * z_range) % 10 = 0
                 /\ DoubleShortfall(tenths) * z_range > 20 * p
                 /\ z_min + n <= 2 * p
    IN  IF below THEN IntOfTenths(exact10) - 1 ELSE IntOfTenths(exact10)

RegionKeys == {"fundus", "body", "antrum"}

\* the empty dict
EmptyDict == <<>>

identify_stomach_regions(mask) ==
    LET nonzero == mask
    IN  IF Cardinality(nonzero) = 0
        THEN EmptyDict
        ELSE LET z_min == MinOf({v[1] : v \in nonzero})
                 z_max == MaxOf({v[1] : v \in nonzero})
                 z_range == z_max - z_min
                 fundus_z == IntOfSum(z_min, z_range, 3)
                 body_z == IntOfSum(z_min, z_range, 7)
             IN  [r \in RegionKeys |->
                    CASE r = "fundus" ->
                           [z_range |-> <<z_min, fundus_z>>,
                            volume_percent |-> 30]
                      [] r = "body" ->
                           [z_range |-> <<fundus_z, body_z>>,
                            volume_percent |-> 40]
                      [] r = "antrum" ->
                           [z_range |-> <<body_z, z_max>>,
                            volume_percent |-> 30]]

\* a service that has not been called
NotCalled == [done |-> FALSE]

\* a call of identify_stomach_regions about to be made
SegCall(mask) == [mask |-> mask, done |-> FALSE, regions |-> EmptyDict]

seg_identify ==
    /\ ~segCall.done
    /\ segCall' = [segCall EXCEPT !.done = TRUE,
                                  !.regions = identify_stomach_regions(segCall.mask)]
    /\ UNCHANGED <<femCall, riskCall, catalog, recLog, jobVars>>

\* ------------------------------------------------------- mesh generation
\* services/segmentation/segmenter.py, generate_mesh_from_mask
\*
\* A vertex of the procedural mesh is given by its grid position <<i, j>>,
\* a face by its three vertex indices.  What marching_cubes extracts is an
\* outcome of the library: vertex and face lists of some lengths.

MaxVerts == 7      \* vertices, and faces, marching_cubes may extract

\* len(np.linspace(0, 2 * np.pi, 30)) and len(np.linspace(0, np.pi, 20))
DummyRows == 30
DummyCols == 20

generate_dummy_stomach_mesh ==
    LET rows == DummyRows
        cols == DummyCols
        vertices == [k \in 1 .. rows * cols |-> <<(k - 1) \div cols, (k - 1) % cols>>]
        faces == [k \in 1 .. 2 * (rows - 1) * (cols - 1) |->
                    LET cell == (k - 1) \div 2
                        v0 == (cell \div (cols - 1)) * cols + (cell % (cols - 1))
                        v1 == v0 + 1
                        v2 == v0 + cols
                        v3 == v2 + 1
                    IN  IF (k - 1) % 2 = 0 THEN <<v0, v1, v2>> ELSE <<v1, v3, v2>>]
    IN  [vertices |-> vertices, faces |-> faces,
         vertex_count |-> Len(vertices), face_count |-> Len(faces)]

\* vertex_count and face_count the except branch reports
DummyVertexCount == 1000
DummyFaceCount == 2000

NoMesh == [vertices |-> <<>>, faces |-> <<>>, vertex_count |-> 0, face_count |-> 0]

\* the dictionary generate_mesh_from_mask returns when skimage is there and
\* marching_cubes extracts verts and faces, and when the import fails
mesh_from_mask(skimage, verts, faces) ==
    IF skimage = "ok"
    THEN [vertices |-> verts, faces |-> faces,
          vertex_count |-> Len(verts), face_count |-> Len(faces)]
    ELSE [vertices |-> generate_dummy_stomach_mesh.vertices,
          faces |-> generate_dummy_stomach_mesh.faces,
          vertex_count |-> DummyVertexCount, face_count |-> DummyFaceCount]

\* a call of generate_mesh_from_mask about to be made
MeshCall(skimage, verts, faces) ==
    [skimage |-> skimage, verts |-> verts, faces |-> faces,
     done |-> FALSE, raised |-> FALSE, mesh |-> NoMesh]

\* only ImportError is caught: any other failure of marching_cubes is raised
mesh_generate ==
    /\ ~segCall.done
    /\ segCall' = IF segCall.skimage \in {"ok", "missing"}
                  THEN [segCall EXCEPT !.done = TRUE,
                           !.mesh = mesh_from_mask(segCall.skimage, segCall.verts,
                                                   segCall.faces)]
                  ELSE [segCall EXCEPT !.done = TRUE, !.raised = TRUE]
    /\ UNCHANGED <<femCall, riskCall, catalog, recLog, jobVars>>

\* ------------------------------------------------------- FEM simulation
\* services/simulation/fem_solver.py
\*
\* Lengths are in tenths of a millimetre, stiffness in tenths, Young's
\* moduli and yield stresses in hundredths of a MPa.  A derived quantity
\* is an exact fraction <<numerator, denominator>> with a positive
\* denominator.  Thicknesses and heights are positive finite numbers.

RECURSIVE GCD(_, _)
GCD(a, b) == IF b = 0 THEN a ELSE GCD(b, a % b)

\* the fraction n / d in lowest terms
Frac(n, d) == LET g == GCD(IF n < 0 THEN -n ELSE n, d) IN <<n \div g, d \div g>>

Lt(a, b) == a[1] * b[2] < b[1] * a[2]
Le(a, b) == a[1] * b[2] <= b[1] * a[2]
MaxFrac(a, b) == IF Lt(a, b) THEN b ELSE a
MinFrac(a, b) == IF Lt(b, a) THEN b ELSE a

Regions == <<"fundus", "body", "antrum">>

STAPLERS ==
    << [name |-> "linear_green", height_mm |-> 48, tissue_range |-> <<20, 30>>],
       [name |-> "linear_blue",  height_mm |-> 35, tissue_range |-> <<15, 20>>],
       [name |-> "linear_gold",  height_mm |-> 38, tissue_range |-> <<18, 25>>],
       [name |-> "linear_white", height_mm |-> 25, tissue_range |-> <<10, 15>>],
       [name |-> "circular",     height_mm |-> 40, tissue_range |-> <<20, 25>>] >>

DEFAULT_PROPERTIES ==
    [fundus |-> [E |-> 5, yield_stress |-> 30],
     body   |-> [E |-> 6, yield_stress |-> 35],
     antrum |-> [E |-> 8, yield_stress |-> 40]]

DefaultThickness == 40      \* wall_thickness.get(r, 4.0)
DefaultStiffness == 6       \* tissue_stiffness.get(region, 0.6)

\* dict.get(key, default)
Get(d, key, default) == IF key \in DOMAIN d THEN d[key] ELSE default

\* a strain without the 0.1 given to tissue no thicker than the staple
StrainOfAnyThickness(thickness, stapler_height_mm) ==
    Frac(thickness - stapler_height_mm, thickness)
\* strain of one region
Strain(thickness, stapler_height_mm) ==
    IF thickness > stapler_height_mm
    THEN Frac(thickness - stapler_height_mm, thickness)
    ELSE <<1, 10>>

\* stress = E * stiffness * strain * 100
Stress(region, stiffness, strain) ==
    Frac(DEFAULT_PROPERTIES[region].E * stiffness * strain[1], 10 * strain[2])

\* np.random.normal(0, base_stress * 0.1) raises ValueError for a negative
\* scale; the noise itself is not part of the model
generate_stress_distribution_raises(stress_per_region) ==
    \E r \in RegionKeys : stress_per_region[r][1] < 0

\* yield_stress / (stress + 0.001), for stress >= 0
safety_factor(region, stress) ==
    <<10 * DEFAULT_PROPERTIES[region].yield_stress * stress[2],
      1000 * stress[1] + stress[2]>>

FailureThresholdLoose == <<2, 1>>
FailureThreshold == <<3, 2>>
HighRiskThreshold == <<1, 1>>

_identify_failure_zones(stress_per_region) ==
    LET unsafe == SelectSeq(Regions, LAMBDA r :
                      Lt(safety_factor(r, stress_per_region[r]), FailureThreshold))
    IN  [i \in 1 .. Len(unsafe) |->
           [region |-> unsafe[i],
            stress |-> stress_per_region[unsafe[i]],
            yield_stress |-> DEFAULT_PROPERTIES[unsafe[i]].yield_stress,
            risk_level |->
                IF Lt(safety_factor(unsafe[i], stress_per_region[unsafe[i]]),
                      HighRiskThreshold)
                THEN "high" ELSE "medium"]]

MaxStress(stress_per_region) ==
    MaxFrac(stress_per_region["fundus"],
            MaxFrac(stress_per_region["body"], stress_per_region["antrum"]))

\* max(d.values()) of a per-region dictionary
MaxValues(per_region) == MaxStress(per_region)

StartsWithLinear(stapler_type) ==
    stapler_type \in {"linear_green", "linear_blue", "linear_gold",
                      "linear_white", "linear_black"}

\* the result as a percentage: 100 * raw_prob, not clamped
calculate_leak_probability_percent(stress_per_region, compression_ratio, stapler_type) ==
    LET max_stress == MaxStress(stress_per_region)
        stress_factor == MinFrac(<<max_stress[1], 50 * max_stress[2]>>, <<1, 1>>)
        compression_factor100 ==
            IF Lt(compression_ratio, <<1, 2>>) THEN 30
            ELSE IF Lt(<<9, 10>>, compression_ratio) THEN 40
            ELSE 10
        stapler_factor100 == IF StartsWithLinear(stapler_type) THEN 5 ELSE 10
    IN  Frac(400 * stress_factor[1]
               + (4 * compression_factor100 + 2 * stapler_factor100) * stress_factor[2],
             10 * stress_factor[2])

_calculate_leak_probability(stress_per_region, compression_ratio, stapler_type) ==
    LET max_stress == MaxStress(stress_per_region)
        stress_factor == MinFrac(<<max_stress[1], 50 * max_stress[2]>>, <<1, 1>>)
        compression_factor100 ==
            IF Lt(compression_ratio, <<1, 2>>) THEN 30
            ELSE IF Lt(<<9, 10>>, compression_ratio) THEN 40
            ELSE 10
        stapler_factor100 == IF StartsWithLinear(stapler_type) THEN 5 ELSE 10
        \* stress_factor * 0.4 + compression_factor * 0.4 + stapler_factor * 0.2
        raw_prob == Frac(400 * stress_factor[1]
                           + (4 * compression_factor100 + 2 * stapler_factor100)
                               * stress_factor[2],
                         1000 * stress_factor[2])
    IN  MinFrac(MaxFrac(raw_prob, <<1, 100>>), <<99, 100>>)

Abs(x) == IF x < 0 THEN -x ELSE x

\* specs match avg_thickness (a fraction, in tenths of a millimetre)
StaplerFits(specs, avg_thickness) ==
    \/ /\ Le(<<specs.tissue_range[1], 1>>, avg_thickness)
       /\ Le(avg_thickness, <<specs.tissue_range[2], 1>>)
    \/ Abs(10 * specs.height_mm * avg_thickness[2] - 7 * avg_thickness[1])
         < 50 * avg_thickness[2]

_recommend_stapler(avg_thickness) ==
    LET fits == {i \in 1 .. Len(STAPLERS) : StaplerFits(STAPLERS[i], avg_thickness)}
    IN  IF fits # {} THEN STAPLERS[MinOf(fits)].name
        ELSE IF Lt(<<30, 1>>, avg_thickness) THEN "linear_green"
        ELSE IF Lt(<<20, 1>>, avg_thickness) THEN "linear_gold"
        ELSE "linear_blue"

Entry(kind, regions, stapler) == [kind |-> kind, regions |-> regions, stapler |-> stapler]

\* "Consider reinforcing staple line with buttress material"
Buttress == Entry("buttress", <<>>, "")
\* "High leak risk - recommend oversewing staple line"
Oversew == Entry("oversew", <<>>, "")
\* "Exercise caution in {regions} region(s)"
Caution(regions) == Entry("caution", regions, "")
\* "Consider using {stapler} stapler for optimal compression"
ConsiderUsing(stapler) == Entry("consider_using", <<>>, stapler)
\* "Surgical parameters appear within safe limits"
WithinSafeLimits == Entry("within_safe_limits", <<>>, "")

ButtressThresholdHigh == <<5, 10>>
ButtressThreshold == <<3, 10>>
OversewThreshold == <<5, 10>>

_generate_recommendations(leak_prob, failure_zones, stapler_type, avg_thickness) ==
    LET high == SelectSeq(failure_zones, LAMBDA fz : fz.risk_level = "high")
        high_risk_regions == [i \in 1 .. Len(high) |-> high[i].region]
        optimal_stapler == _recommend_stapler(avg_thickness)
        recommendations ==
            (IF Lt(ButtressThreshold, leak_prob) THEN <<Buttress>> ELSE <<>>)
            \o (IF Lt(OversewThreshold, leak_prob) THEN <<Oversew>> ELSE <<>>)
            \o (IF Len(failure_zones) > 0 /\ Len(high_risk_regions) > 0
                THEN <<Caution(high_risk_regions)>> ELSE <<>>)
            \o (IF optimal_stapler # stapler_type
                THEN <<ConsiderUsing(optimal_stapler)>> ELSE <<>>)
    IN  IF Len(recommendations) = 0 THEN <<WithinSafeLimits>> ELSE recommendations

NoFemResult ==
    [avg_thickness |-> <<0, 1>>, compression_ratio |-> <<0, 1>>,
     max_von_mises_stress |-> <<0, 1>>, max_principal_strain |-> <<0, 1>>,
     per_region |-> EmptyDict, strain_per_region |-> EmptyDict,
     failure_zones |-> <<>>, leak_probability |-> <<0, 1>>,
     recommended_stapler |-> "", recommendations |-> <<>>]

\* the dictionary returned by run_simulation
\* (stress_map_path, vertex_stresses and computation_time_seconds left out)
run_simulation(stapler_type, stapler_height_mm, wall_thickness, tissue_stiffness) ==
    LET thickness(r) == Get(wall_thickness, r, DefaultThickness)
        avg_thickness == Frac(thickness("fundus") + thickness("body") + thickness("antrum"), 3)
        compression_ratio == Frac(stapler_height_mm * avg_thickness[2], avg_thickness[1])
        strain_per_region ==
            [r \in RegionKeys |-> Strain(thickness(r), stapler_height_mm)]
        stress_per_region ==
            [r \in RegionKeys |->
                Stress(r, Get(tissue_stiffness, r, DefaultStiffness), strain_per_region[r])]
        failure_zones == _identify_failure_zones(stress_per_region)
        leak_prob == _calculate_leak_probability(stress_per_region, compression_ratio,
                                                 stapler_type)
    IN  [avg_thickness |-> avg_thickness,
         compression_ratio |-> compression_ratio,
         max_von_mises_stress |-> MaxValues(stress_per_region),
         max_principal_strain |-> MaxValues(strain_per_region),
         per_region |-> stress_per_region,
         strain_per_region |-> strain_per_region,
         failure_zones |-> failure_zones,
         leak_probability |-> leak_prob,
         recommended_stapler |-> _recommend_stapler(avg_thickness),
         recommendations |-> _generate_recommendations(leak_prob, failure_zones,
                                                       stapler_type, avg_thickness)]

run_simulation_raises(stapler_height_mm, wall_thickness, tissue_stiffness) ==
    generate_stress_distribution_raises(
        [r \in RegionKeys |->
            Stress(r, Get(tissue_stiffness, r, DefaultStiffness),
                   Strain(Get(wall_thickness, r, DefaultThickness), stapler_height_mm))])

\* arguments of the calls made
StaplerTypes == {"linear_green", "linear_blue", "linear_gold", "linear_white",
                 "circular", "linear_black"}
StaplerHeights == {25, 35, 38, 48}
ThicknessValues == {25, 38, 42, 45}
StiffnessValues == {-5, 0, 3, 6, 100, 300}
WallThicknessMaps == {EmptyDict} \cup [RegionKeys -> ThicknessValues]
TissueStiffnessMaps ==
    {EmptyDict} \cup {[r \in K |-> v] : K \in {{"fundus"}, RegionKeys}, v \in StiffnessValues}

FemArgs(st, h, wt, ts) ==
    [stapler_type |-> st, stapler_height_mm |-> h, wall_thickness |-> wt,
     tissue_stiffness |-> ts]

\* a call of run_simulation about to be made
FemCall(args) == [args |-> args, done |-> FALSE, raised |-> FALSE, result |-> NoFemResult]

fem_run_simulation ==
    /\ ~femCall.done
    /\ LET a == femCall.args
       IN  IF run_simulation_raises(a.stapler_height_mm, a.wall_thickness, a.tissue_stiffness)
           THEN femCall' = [femCall EXCEPT !.done = TRUE, !.raised = TRUE]
           ELSE femCall' = [femCall EXCEPT !.done = TRUE,
                               !.result = run_simulation(a.stapler_type, a.stapler_height_mm,
                                                         a.wall_thickness, a.tissue_stiffness)]
    /\ UNCHANGED <<segCall, riskCall, catalog, recLog, jobVars>>

\* run_simulation taken one checkpoint at a time.  A run holds its position,
\* the names of the quantities computed so far, the progress values handed
\* to the callback and, for each of them, what was computed when it was made.
FemRun(args, progress_callback) ==
    [args |-> args, progress_callback |-> progress_callback, pc |-> "setup",
     computed |-> {}, emitted |-> <<>>, known |-> <<>>]

\* a callback that is invoked twice at every checkpoint
CallbackTwice(run, i) ==
    IF run.progress_callback
    THEN [run EXCEPT !.emitted = @ \o <<Checkpoints[i], Checkpoints[i]>>,
                     !.known = @ \o <<run.computed, run.computed>>]
    ELSE run
\* if progress_callback: progress_callback(p)
Callback(run, i) ==
    IF run.progress_callback
    THEN [run EXCEPT !.emitted = Append(@, Checkpoints[i]),
                     !.known = Append(@, run.computed)]
    ELSE run

FemStep(from, names, i, to) ==
    /\ femCall.pc = from
    /\ femCall' = Callback([femCall EXCEPT !.pc = to, !.computed = @ \cup names], i)
    /\ UNCHANGED <<segCall, riskCall, catalog, recLog, jobVars>>

fem_setup == FemStep("setup", {}, 1, "compression")

fem_compression == FemStep("compression", {"avg_thickness", "compression_ratio"}, 2, "stress")

fem_stress == FemStep("stress", {"stress_per_region", "strain_per_region"}, 3, "distribution")

fem_distribution ==
    /\ femCall.pc = "distribution"
    /\ IF run_simulation_raises(femCall.args.stapler_height_mm, femCall.args.wall_thickness,
                                femCall.args.tissue_stiffness)
       THEN /\ femCall' = [femCall EXCEPT !.pc = "raised"]
            /\ UNCHANGED <<segCall, riskCall, catalog, recLog, jobVars>>
       ELSE FemStep("distribution", {"stress_distribution"}, 4, "results")

fem_results ==
    FemStep("results", {"failure_zones", "leak_prob", "recommendations",
                        "recommended_stapler"}, 5, "returned")

\* wall_thickness = {"fundus": 4.5, "body": 3.8, "antrum": 4.2} of run_fem_simulation
JobWallThickness == [fundus |-> 45, body |-> 38, antrum |-> 42]

\* tissue_stiffness given to a job by start_simulation when the request has none
JobStiffness == [fundus |-> 5, body |-> 6, antrum |-> 7]

\* wall_thickness of the Mesh row a job references: the one run_segmentation
\* gives, in tenths of a millimetre, and rows with other regional values
SegmentedWallThickness == [fundus |-> 45, body |-> 38, antrum |-> 42, average |-> 40]
MeshWallThicknessMaps ==
    {SegmentedWallThickness}
        \cup {[k \in RegionKeys \cup {"average"} |-> IF k = "average" THEN 40 ELSE wt[k]] :
                 wt \in [RegionKeys -> ThicknessValues]}

\* a call of run_fem_simulation about to be made by the job of a Simulation
\* row: mesh is the wall_thickness of the Mesh row of sim.mesh_id
FemJob(mesh, args) ==
    [mesh |-> mesh, args |-> args, done |-> FALSE, raised |-> FALSE, result |-> NoFemResult]

\* run_fem_simulation(mesh_id, stapler_type, stapler_height_mm, tissue_stiffness, cb)
run_fem_simulation ==
    /\ ~femCall.done
    /\ LET a == femCall.args
           wall_thickness == JobWallThickness
       IN  femCall' =
             IF run_simulation_raises(a.stapler_height_mm, wall_thickness, a.tissue_stiffness)
             THEN [femCall EXCEPT !.done = TRUE, !.raised = TRUE]
             ELSE [femCall EXCEPT !.done = TRUE,
                      !.result = run_simulation(a.stapler_type, a.stapler_height_mm,
                                                wall_thickness, a.tissue_stiffness)]
    /\ UNCHANGED <<segCall, riskCall, catalog, recLog, jobVars>>

\* -------------------------------------------------- stapler recommendation
\* services/ai/predictor.py, StaplerRecommender
\*
\* A wall-thickness map of the predictor holds fractions of tenths of a
\* millimetre, so that a mean such as 60/13 mm can be given.

AddFrac(a, b) == Frac(a[1] * b[2] + b[1] * a[2], a[2] * b[2])

RECURSIVE SumValues(_, _)
SumValues(d, keys) ==
    IF keys = {} THEN <<0, 1>>
    ELSE LET k == CHOOSE x \in keys : TRUE
         IN  AddFrac(d[k], SumValues(d, keys \ {k}))

\* np.mean(list(d.values()))
Mean(d) == LET total == SumValues(d, DOMAIN d)
           IN  Frac(total[1], total[2] * Cardinality(DOMAIN d))

\* round to the nearest integer, halves to even, of n / d >= 0
RoundHalfEven(n, d) ==
    LET q == n \div d
        r == n % d
    IN  IF 2 * r < d THEN q
        ELSE IF 2 * r > d THEN q + 1
        ELSE IF q % 2 = 0 THEN q ELSE q + 1

STAPLER_OPTIONS ==
    << [name |-> "linear_white", height |-> 25, tissue_range |-> <<10, 15>>],
       [name |-> "linear_blue",  height |-> 35, tissue_range |-> <<15, 20>>],
       [name |-> "linear_gold",  height |-> 38, tissue_range |-> <<18, 25>>],
       [name |-> "linear_green", height |-> 48, tissue_range |-> <<20, 30>>],
       [name |-> "linear_black", height |-> 55, tissue_range |-> <<30, 40>>] >>

\* the list object held by the class attribute, by the names of its entries
OptionNames == [i \in DOMAIN STAPLER_OPTIONS |-> STAPLER_OPTIONS[i].name]

\* the entries of a list of stapler names
OptionsOf(names) ==
    [i \in DOMAIN names |->
        CHOOSE st \in {STAPLER_OPTIONS[k] : k \in DOMAIN STAPLER_OPTIONS} :
            st.name = names[i]]

\* wall_thickness is falsy
Falsy(d) == DOMAIN d = {}

RecommenderDefaultThickness == <<40, 1>>    \* ... if wall_thickness else 4.0

\* abs(stapler["height"] - avg_thickness * 0.65), times 20 * avg_thickness[2]
score(stapler, avg_thickness) ==
    Abs(20 * stapler.height * avg_thickness[2] - 13 * avg_thickness[1])

BetterOrEqual(new_score, best_score) == new_score <= best_score
\* if score < best_score
Better(new_score, best_score) == new_score < best_score

\* the loop over STAPLER_OPTIONS from index i on; best = 0 is None
RECURSIVE best_stapler(_, _, _, _)
best_stapler(options, avg_thickness, i, best) ==
    IF i > Len(options) THEN best
    ELSE best_stapler(options, avg_thickness, i + 1,
            IF best = 0 \/ Better(score(options[i], avg_thickness),
                                  score(options[best], avg_thickness))
            THEN i ELSE best)

AllOf(alternatives) == alternatives
\* alternatives[:2]
FirstTwo(alternatives) ==
    SubSeq(alternatives, 1, IF Len(alternatives) < 2 THEN Len(alternatives) ELSE 2)

\* min_t <= avg_thickness / 2 <= max_t
InTissueRange(stapler, avg_thickness) ==
    /\ 2 * stapler.tissue_range[1] * avg_thickness[2] <= avg_thickness[1]
    /\ avg_thickness[1] <= 2 * stapler.tissue_range[2] * avg_thickness[2]

\* patient_bmi and patient_bmi > 35 (tenths; NULL is None)
ElevatedBmi(patient_bmi) == patient_bmi # NULL /\ patient_bmi # 0 /\ patient_bmi > 350

\* the reasoning string, by the values formatted into it:
\* {avg_thickness:.1f}, name, height, {height/avg_thickness:.1%}, and whether
\* the sentence on elevated BMI is appended
Reasoning(stapler, avg_thickness, patient_bmi) ==
    [avg_thickness_1f |-> RoundHalfEven(avg_thickness[1], avg_thickness[2]),
     name |-> stapler.name,
     height |-> stapler.height,
     ratio_1pct |-> RoundHalfEven(1000 * stapler.height * avg_thickness[2],
                                  avg_thickness[1]),
     elevated_bmi |-> ElevatedBmi(patient_bmi)]

\* a recommender that keeps a position in the catalog across calls
recommend_round_robin(options, wall_thickness, patient_bmi) ==
    LET turn == options[1 + (Len(recLog) % Len(options))]
    IN  [stapler |-> turn.name, height_mm |-> turn.height,
         alternatives |-> <<>>,
         reasoning |-> Reasoning(turn, RecommenderDefaultThickness, patient_bmi)]
recommend(options, wall_thickness, patient_bmi) ==
    LET avg_thickness == IF Falsy(wall_thickness) THEN RecommenderDefaultThickness
                         ELSE Mean(wall_thickness)
        best == options[best_stapler(options, avg_thickness, 1, 0)]
        candidates == SelectSeq(options, LAMBDA st :
                          st.name # best.name /\ InTissueRange(st, avg_thickness))
        alternatives == [i \in 1 .. Len(candidates) |->
                            [name |-> candidates[i].name,
                             height_mm |-> candidates[i].height,
                             suitability |-> "acceptable"]]
    IN  [stapler |-> best.name,
         height_mm |-> best.height,
         alternatives |-> FirstTwo(alternatives),
         reasoning |-> Reasoning(best, avg_thickness, patient_bmi)]

MaxCalls == 3      \* calls of recommend_stapler served

\* wall_thickness of the Mesh row written by process_scan_background
StoredWallThickness ==
    [fundus |-> <<45, 1>>, body |-> <<38, 1>>, antrum |-> <<42, 1>>, average |-> <<40, 1>>]

\* mean thicknesses asked for: 3.0, 4.0, 60/13, 5.0, 730/130 and 8.0 mm
RecThicknessValues == {<<30, 1>>, <<40, 1>>, <<600, 13>>, <<50, 1>>, <<730, 13>>, <<80, 1>>}
RecWallThicknessMaps ==
    {EmptyDict, StoredWallThickness}
        \cup {[r \in RegionKeys |-> v] : v \in RecThicknessValues}
RecBmiValues == {NULL, 300, 400}

\* recommend_stapler builds a StaplerRecommender and calls recommend on it
recommend_stapler(wall_thickness, patient_bmi) ==
    /\ Len(recLog) < MaxCalls
    /\ recLog' = Append(recLog,
                    [wall_thickness |-> wall_thickness, patient_bmi |-> patient_bmi,
                     result |-> recommend(OptionsOf(catalog), wall_thickness, patient_bmi)])
    /\ UNCHANGED <<catalog, segCall, femCall, riskCall, jobVars>>

\* ------------------------------------------------------ leak risk scoring
\* services/ai/predictor.py, LeakRiskPredictor
\*
\* Features are exact fractions; the feature wall_thickness_variation is
\* kept by its square, std^2 / mean^2.  The risk score is in thousandths,
\* rounded down.  Thicknesses are positive.

MulFrac(a, b) == Frac(a[1] * b[1], a[2] * b[2])
SubFrac(a, b) == Frac(a[1] * b[2] - b[1] * a[2], a[2] * b[2])

\* the largest v in lo .. hi with v * v <= n
RECURSIVE SqrtIn(_, _, _)
SqrtIn(n, lo, hi) ==
    IF lo >= hi THEN lo
    ELSE LET mid == (lo + hi + 1) \div 2
         IN  IF mid * mid <= n THEN SqrtIn(n, mid, hi) ELSE SqrtIn(n, lo, mid - 1)

\* f in thousandths, rounded down
Milli(f) == (1000 * f[1]) \div f[2]

\* the square root of f >= 0 in thousandths, rounded down
SqrtMilli(f) ==
    LET thousandfold == 1000 * f[1]
        \* (1000000 * f[1]) \div f[2], without the large product
        millionfold == 1000 * (thousandfold \div f[2])
                         + (1000 * (thousandfold % f[2])) \div f[2]
    IN  SqrtIn(millionfold, 0, 40000)

RISK_WEIGHTS ==
    [wall_thickness_variation |-> 15, tissue_stiffness |-> 12, compression_ratio |-> 20,
     bmi |-> 10, diabetes |-> 15, previous_surgery |-> 8, stapler_mismatch |-> 20]

\* bmi_factor, in tenths (patient_bmi in tenths, NULL is None)
bmi_factor(patient_bmi) ==
    IF patient_bmi = NULL \/ patient_bmi = 0 THEN 0
    ELSE IF patient_bmi < 185 THEN 2
    ELSE IF patient_bmi > 400 THEN 3
    ELSE IF patient_bmi > 350 THEN 2
    ELSE IF patient_bmi > 300 THEN 1
    ELSE 0

_extract_features(wall_thickness, stapler_height_mm, patient_bmi, diabetes, previous_surgery) ==
    LET thickness_values == IF Falsy(wall_thickness) THEN [k \in {"default"} |-> <<40, 1>>]
                            ELSE wall_thickness
        avg_thickness == Mean(thickness_values)
        squares == [k \in DOMAIN thickness_values |->
                       MulFrac(thickness_values[k], thickness_values[k])]
        \* np.std(thickness_values) ** 2
        variance == IF Cardinality(DOMAIN thickness_values) > 1
                    THEN SubFrac(Mean(squares), MulFrac(avg_thickness, avg_thickness))
                    ELSE <<0, 1>>
        \* avg_thickness * 0.7
        optimal_height == Frac(7 * avg_thickness[1], 10 * avg_thickness[2])
        deviation == SubFrac(<<stapler_height_mm, 1>>, optimal_height)
    IN  [wall_thickness_variation_sq |->
            Frac(variance[1] * avg_thickness[2] * avg_thickness[2],
                 variance[2] * avg_thickness[1] * avg_thickness[1]),
         tissue_stiffness |-> <<1, 10>>,
         compression_ratio |-> Frac(stapler_height_mm * avg_thickness[2], avg_thickness[1]),
         bmi |-> Frac(bmi_factor(patient_bmi), 10),
         diabetes |-> IF diabetes THEN <<1, 1>> ELSE <<0, 1>>,
         previous_surgery |-> IF previous_surgery THEN <<1, 1>> ELSE <<0, 1>>,
         stapler_mismatch |-> Frac(Abs(deviation[1]) * optimal_height[2],
                                   deviation[2] * optimal_height[1])]

\* the weighted sum of the features, in thousandths
\* a weighted sum that leaves the tissue stiffness out
ScoreWithoutStiffness(features) ==
    (RISK_WEIGHTS.wall_thickness_variation * SqrtMilli(features.wall_thickness_variation_sq)
       + RISK_WEIGHTS.compression_ratio * Milli(features.compression_ratio)
       + RISK_WEIGHTS.bmi * Milli(features.bmi)
       + RISK_WEIGHTS.diabetes * Milli(features.diabetes)
       + RISK_WEIGHTS.previous_surgery * Milli(features.previous_surgery)
       + RISK_WEIGHTS.stapler_mismatch * Milli(features.stapler_mismatch)) \div 100
Score(features) ==
    (RISK_WEIGHTS.wall_thickness_variation * SqrtMilli(features.wall_thickness_variation_sq)
       + RISK_WEIGHTS.tissue_stiffness * Milli(features.tissue_stiffness)
       + RISK_WEIGHTS.compression_ratio * Milli(features.compression_ratio)
       + RISK_WEIGHTS.bmi * Milli(features.bmi)
       + RISK_WEIGHTS.diabetes * Milli(features.diabetes)
       + RISK_WEIGHTS.previous_surgery * Milli(features.previous_surgery)
       + RISK_WEIGHTS.stapler_mismatch * Milli(features.stapler_mismatch)) \div 100

\* (score - 0.3) * 40
calculate_risk_score_x40(features) == (Score(features) - 300) * 40
\* (score - 0.3) * 4, in thousandths
_calculate_risk_score(features) == (Score(features) - 300) * 4

\* 1 / (1 + np.exp(-x)) in IEEE double precision, x in thousandths:
\*   exp(-x) exceeds the largest double for x <= -709.783, the quotient is 0.0;
\*   exp(-x) <= 2^-53 for x >= 53 ln 2 = 36.7368, 1 + exp(-x) rounds to 1.0;
\*   the value is below 0.1 for x < ln(1/9) = -2.1972 and below 0.3 for
\*   x < ln(3/7) = -0.8473.
SigmoidZeroUpTo == 0 - 709783
SigmoidBelowTenth == 0 - 2198
SigmoidBelowThreeTenths == 0 - 848
SigmoidOneFrom == 36737

\* the band of [0, 1] the probability falls into
Sigmoid(risk_score) ==
    IF risk_score <= SigmoidZeroUpTo THEN "0.0"
    ELSE IF risk_score <= SigmoidBelowTenth THEN "(0, 0.1)"
    ELSE IF risk_score <= SigmoidBelowThreeTenths THEN "[0.1, 0.3)"
    ELSE IF risk_score < SigmoidOneFrom THEN "[0.3, 1)"
    ELSE "1.0"

risk_level(probability) ==
    IF probability \in {"0.0", "(0, 0.1)"} THEN "low"
    ELSE IF probability = "[0.1, 0.3)" THEN "medium"
    ELSE "high"

MismatchThreshold == <<2, 10>>

NoFactorsEmpty == <<>>
\* if not factors: factors.append(...)
NoFactors == <<"No significant risk factors identified">>

_identify_factors(features) ==
    LET factors ==
            (IF Lt(features.compression_ratio, <<5, 10>>)
             THEN <<"Under-compression of tissue">>
             ELSE IF Lt(<<8, 10>>, features.compression_ratio)
             THEN <<"Over-compression of tissue">>
             ELSE <<>>)
            \o (IF Lt(<<0, 1>>, features.diabetes)
                THEN <<"Diabetes (impairs healing)">> ELSE <<>>)
            \o (IF Lt(<<0, 1>>, features.previous_surgery)
                THEN <<"Previous abdominal surgery">> ELSE <<>>)
            \o (IF Lt(MismatchThreshold, features.stapler_mismatch)
                THEN <<"Suboptimal stapler selection">> ELSE <<>>)
            \o (IF Lt(<<4, 100>>, features.wall_thickness_variation_sq)
                THEN <<"Variable wall thickness">> ELSE <<>>)
            \o (IF Lt(<<1, 10>>, features.bmi)
                THEN <<"Elevated BMI">> ELSE <<>>)
    IN  IF Len(factors) = 0 THEN NoFactors ELSE factors

\* a scorer whose confidence grows with the calls served before
predict_warming_up(wall_thickness, stapler_height_mm, patient_bmi, diabetes, previous_surgery) ==
    LET features == _extract_features(wall_thickness, stapler_height_mm, patient_bmi,
                                      diabetes, previous_surgery)
        probability == Sigmoid(_calculate_risk_score(features))
    IN  [probability |-> probability,
         risk_level |-> risk_level(probability),
         factors |-> _identify_factors(features),
         confidence |-> 85 + Len(riskCall.log)]
predict(wall_thickness, stapler_height_mm, patient_bmi, diabetes, previous_surgery) ==
    LET features == _extract_features(wall_thickness, stapler_height_mm, patient_bmi,
                                      diabetes, previous_surgery)
        risk_score == _calculate_risk_score(features)
        probability == Sigmoid(risk_score)
    IN  [probability |-> probability,
         risk_level |-> risk_level(probability),
         factors |-> _identify_factors(features),
         confidence |-> 85]

\* arguments of the calls made
RiskThicknessValues == {<<10, 1>>, <<38, 1>>, <<45, 1>>, <<80, 1>>}
RiskWallThicknessMaps ==
    {EmptyDict, StoredWallThickness} \cup [RegionKeys -> RiskThicknessValues]
RiskStaplerHeights == {25, 28, 35, 38, 48, 55}
RiskBmiValues == {NULL, 0, 170, 250, 320, 380, 450}

RiskArgs(wt, h, bmi, d, p) ==
    [wall_thickness |-> wt, stapler_height_mm |-> h, patient_bmi |-> bmi,
     diabetes |-> d, previous_surgery |-> p]

NoRiskResult == [probability |-> "", risk_level |-> "", factors |-> <<>>, confidence |-> 0]

\* a call of predict_leak_risk about to be made
RiskCall(args) == [args |-> args, done |-> FALSE, features |-> EmptyDict,
                   result |-> NoRiskResult]

predict_leak_risk ==
    /\ ~riskCall.done
    /\ LET a == riskCall.args
       IN  riskCall' = [riskCall EXCEPT
               !.done = TRUE,
               !.features = _extract_features(a.wall_thickness, a.stapler_height_mm,
                                              a.patient_bmi, a.diabetes, a.previous_surgery),
               !.result = predict(a.wall_thickness, a.stapler_height_mm, a.patient_bmi,
                                  a.diabetes, a.previous_surgery)]
    /\ UNCHANGED <<segCall, femCall, catalog, recLog, jobVars>>

\* the calls of predict_leak_risk served so far, each with its return value
NoRiskCalls == [log |-> <<>>]

\* arguments of the calls served one after the other
RiskLogThicknessMaps ==
    {EmptyDict, StoredWallThickness, [r \in RegionKeys |-> <<80, 1>>]}
RiskLogStaplerHeights == {35, 48}

\* predict_leak_risk builds a LeakRiskPredictor and calls predict on it
predict_leak_risk_call(args) ==
    /\ Len(riskCall.log) < MaxCalls
    /\ riskCall' = [riskCall EXCEPT !.log = Append(@,
           [args |-> args,
            result |-> predict(args.wall_thickness, args.stapler_height_mm,
                               args.patient_bmi, args.diabetes, args.previous_surgery)])]
    /\ UNCHANGED <<segCall, femCall, catalog, recLog, jobVars>>

\* ------------------------------------------------------------ predictions
\* api/predictions.py, on the rows process_scan_background stores
\*

\* "material_properties" of the dictionary run_segmentation returns
\* (elastic_modulus in tenths, poisson_ratio in hundredths)
MaterialProperties ==
    [fundus |-> [elastic_modulus |-> 5, poisson_ratio |-> 45],
     body |-> [elastic_modulus |-> 6, poisson_ratio |-> 45],
     antrum |-> [elastic_modulus |-> 7, poisson_ratio |-> 45]]

\* the per-region maps of the dictionary run_segmentation returns for a mask,
\* as stored on the Segmentation row (regions) and the Mesh row
SegmentationMaps(mask) ==
    [regions |-> identify_stomach_regions(mask),
     wall_thickness |-> StoredWallThickness,
     material_properties |-> MaterialProperties]

NoAnswer == [called |-> FALSE]

\* a segmented scan nothing has been asked about
Segmented(maps) == [maps |-> maps, risk |-> NoAnswer, rec |-> NoAnswer]

\* POST /predict-risk for the scan
predict_leak(stapler_height_mm, patient_bmi, diabetes, previous_surgery) ==
    /\ LET wall_thickness == riskCall.maps.wall_thickness
       IN  riskCall' = [riskCall EXCEPT !.risk =
               [called |-> TRUE,
                stapler_height_mm |-> stapler_height_mm,
                features |-> _extract_features(wall_thickness, stapler_height_mm,
                                               patient_bmi, diabetes, previous_surgery),
                result |-> predict(wall_thickness, stapler_height_mm, patient_bmi,
                                   diabetes, previous_surgery)]]
    /\ UNCHANGED <<segCall, femCall, catalog, recLog, jobVars>>

\* POST /recommend-stapler for the scan
get_stapler_recommendation(patient_bmi) ==
    /\ LET stored == riskCall.maps.wall_thickness
           \* mesh.wall_thickness or request.tissue_thickness
           wall_thickness == IF Falsy(stored) THEN EmptyDict ELSE stored
       IN  riskCall' = [riskCall EXCEPT !.rec =
               [called |-> TRUE,
                result |-> recommend(OptionsOf(catalog), wall_thickness, patient_bmi)]]
    /\ UNCHANGED <<segCall, femCall, catalog, recLog, jobVars>>

\* ------------------------------------------------------- specifications

\* no job has been requested
JobsInit ==
    /\ simDb = [i \in SimIds |-> NoRow]
    /\ resDb = [i \in SimIds |-> 0]
    /\ simRun = [t \in SimIds |-> IdleRun]
    /\ nSim = 0
    /\ lastPoll = [id |-> 0, status |-> Absent, progress |-> NULL,
                   error_message |-> NoMsg, has_results |-> FALSE]
    /\ scanDb = [i \in ScanIds |-> Absent]
    /\ segDb = [i \in ScanIds |-> 0]
    /\ meshDb = [i \in ScanIds |-> 0]
    /\ scanRun = [t \in ScanIds |-> IdleScanRun]
    /\ nScan = 0

\* no job has been requested and no service has been called
Init ==
    /\ JobsInit
    /\ segCall = NotCalled
    /\ femCall = NotCalled
    /\ riskCall = NotCalled
    /\ catalog = OptionNames
    /\ recLog = <<>>

SimNext ==
    \/ start_simulation
    \/ \E t \in SimIds : run_simulation_background(t)
    \/ \E id \in SimIds : get_simulation_status(id)

Next == SimNext

Spec == Init /\ [][Next]_vars

ScanNext ==
    \/ upload_scan
    \/ \E t \in ScanIds : process_scan_background(t)

ScanSpec == Init /\ [][ScanNext]_vars

\* background tasks are run to their end by the event loop
FairSpec == Spec /\ \A t \in SimIds : WF_vars(run_simulation_background(t))

FairScanSpec == ScanSpec /\ \A t \in ScanIds : WF_vars(process_scan_background(t))

\* identify_stomach_regions applied to one mask
SegInit ==
    /\ JobsInit
    /\ segCall \in {SegCall(m) : m \in Masks \cup Slabs}
    /\ femCall = NotCalled
    /\ riskCall = NotCalled
    /\ catalog = OptionNames
    /\ recLog = <<>>

SegNext == seg_identify

SegSpec == SegInit /\ [][SegNext]_vars

\* FEMSimulator.run_simulation applied to one set of arguments
FemInit ==
    /\ JobsInit
    /\ segCall = NotCalled
    /\ femCall \in {FemCall(FemArgs(st, h, wt, ts)) :
                       st \in StaplerTypes, h \in StaplerHeights,
                       wt \in WallThicknessMaps, ts \in TissueStiffnessMaps}
    /\ riskCall = NotCalled
    /\ catalog = OptionNames
    /\ recLog = <<>>

FemNext == fem_run_simulation

FemSpec == FemInit /\ [][FemNext]_vars

\* LeakRiskPredictor.predict applied to one set of arguments
RiskInit ==
    /\ JobsInit
    /\ segCall = NotCalled
    /\ femCall = NotCalled
    /\ riskCall \in {RiskCall(RiskArgs(wt, h, bmi, d, p)) :
                        wt \in RiskWallThicknessMaps, h \in RiskStaplerHeights,
                        bmi \in RiskBmiValues, d \in BOOLEAN, p \in BOOLEAN}
    /\ catalog = OptionNames
    /\ recLog = <<>>

RiskNext == predict_leak_risk

RiskSpec == RiskInit /\ [][RiskNext]_vars

\* calls of recommend_stapler, one after the other
RecNext ==
    \E wt \in RecWallThicknessMaps, bmi \in RecBmiValues : recommend_stapler(wt, bmi)

RecSpec == Init /\ [][RecNext]_vars

\* calls of predict_leak_risk, one after the other
RiskLogInit ==
    /\ JobsInit
    /\ segCall = NotCalled
    /\ femCall = NotCalled
    /\ riskCall = NoRiskCalls
    /\ catalog = OptionNames
    /\ recLog = <<>>

RiskLogNext ==
    \E wt \in RiskLogThicknessMaps, h \in RiskLogStaplerHeights, d \in BOOLEAN :
        predict_leak_risk_call(RiskArgs(wt, h, NULL, d, FALSE))

RiskLogSpec == RiskLogInit /\ [][RiskLogNext]_vars

\* one run of FEMSimulator.run_simulation, checkpoint by checkpoint, with and
\* without a progress callback
FemStepInit ==
    /\ JobsInit
    /\ segCall = NotCalled
    /\ femCall \in {FemRun(FemArgs(st, h, wt, ts), cb) :
                       st \in {"linear_blue"}, h \in StaplerHeights,
                       wt \in {EmptyDict, [r \in RegionKeys |-> 45]},
                       ts \in TissueStiffnessMaps, cb \in BOOLEAN}
    /\ riskCall = NotCalled
    /\ catalog = OptionNames
    /\ recLog = <<>>

FemStepNext ==
    \/ fem_setup
    \/ fem_compression
    \/ fem_stress
    \/ fem_distribution
    \/ fem_results

FemStepSpec == FemStepInit /\ [][FemStepNext]_vars

\* run_fem_simulation called by the job of one Simulation row
FemJobInit ==
    /\ JobsInit
    /\ segCall = NotCalled
    /\ femCall \in {FemJob(mesh, [stapler_type |-> st, stapler_height_mm |-> h,
                                  tissue_stiffness |-> ts]) :
                       mesh \in MeshWallThicknessMaps, st \in StaplerTypes,
                       h \in StaplerHeights,
                       ts \in {JobStiffness, [r \in RegionKeys |-> -5]}}
    /\ riskCall = NotCalled
    /\ catalog = OptionNames
    /\ recLog = <<>>

FemJobNext == run_fem_simulation

FemJobSpec == FemJobInit /\ [][FemJobNext]_vars

\* predictions asked about one segmented scan
PredictionInit ==
    /\ JobsInit
    /\ segCall = NotCalled
    /\ femCall = NotCalled
    /\ riskCall \in {Segmented(SegmentationMaps(mask)) : mask \in Masks}
    /\ catalog = OptionNames
    /\ recLog = <<>>

PredictionNext ==
    \/ \E h \in RiskStaplerHeights, bmi \in RiskBmiValues, d, p \in BOOLEAN :
          predict_leak(h, bmi, d, p)
    \/ \E bmi \in RecBmiValues : get_stapler_recommendation(bmi)

PredictionSpec == PredictionInit /\ [][PredictionNext]_vars

\* generate_mesh_from_mask applied once, on either path
MeshInit ==
    /\ JobsInit
    /\ segCall \in {MeshCall("ok", [k \in 1 .. nv |-> k], [k \in 1 .. nf |-> k]) :
                       nv \in 0 .. MaxVerts, nf \in 0 .. MaxVerts}
                   \cup {MeshCall(e, <<>>, <<>>) : e \in {"missing", "error"}}
    /\ femCall = NotCalled
    /\ riskCall = NotCalled
    /\ catalog = OptionNames
    /\ recLog = <<>>

MeshNext == mesh_generate

MeshSpec == MeshInit /\ [][MeshNext]_vars

\* ----------------------------------------------------------------- claims

SimEnded(t) == simRun[t].pc \in {"done", "crashed"}
ScanEnded(t) == scanRun[t].pc \in {"done", "crashed"}

RECURSIVE SumComputed(_)
SumComputed(T) == IF T = {} THEN 0
                  ELSE LET t == CHOOSE x \in T : TRUE
                       IN simRun[t].computed + SumComputed(T \ {t})

\* run_fem_simulation calls made for job id, over all its runs
ComputationsOf(id) == SumComputed({t \in SimIds : simRun[t].job = id})

SimTransitions ==
    {<<Absent, "pending">>, <<"pending", "running">>, <<"running", "completed">>,
     <<"pending", "failed">>, <<"running", "failed">>}

\* C2: the committed status of a simulation job changes only along
\* pending -> running -> completed, or pending/running -> failed; completed
\* and failed are never left, no status is entered twice, and the
\* computation is started at most once per job.
C2_SimStatusTransitions ==
    /\ [][\A id \in SimIds :
            simDb'[id].status # simDb[id].status
               => <<simDb[id].status, simDb'[id].status>> \in SimTransitions]_vars
    /\ [](\A id \in SimIds : ComputationsOf(id) <= 1)

C2_Witness ==
    \E a, b \in SimIds :
        /\ simDb[a].status = "completed" /\ resDb[a] = 1
        /\ simDb[b].status = "failed" /\ simRun[b].raised

ScanTransitionsSpec ==
    {<<Absent, "pending">>, <<"pending", "processing">>, <<"processing", "segmenting">>,
     <<"segmenting", "completed">>, <<"pending", "error">>, <<"processing", "error">>,
     <<"segmenting", "error">>}

ScanTransitions ==
    {<<Absent, "uploaded">>, <<"uploaded", "processing">>, <<"processing", "segmenting">>,
     <<"segmenting", "completed">>, <<"uploaded", "error">>, <<"processing", "error">>,
     <<"segmenting", "error">>}

\* C3 as stated: the committed status of a scan job starts at pending and
\* changes only along pending -> processing -> segmenting -> completed, or to
\* error from a non-terminal state.
C3_Original ==
    [][\A id \in ScanIds :
          scanDb'[id] # scanDb[id] => <<scanDb[id], scanDb'[id]>> \in ScanTransitionsSpec]_vars

\* C3 amended: the committed status of a scan job starts at uploaded and
\* changes only along uploaded -> processing -> segmenting -> completed, or to
\* error from uploaded, processing or segmenting; completed and error are
\* never left and no status is entered twice.
C3_ScanStatusTransitions ==
    [][\A id \in ScanIds :
          scanDb'[id] # scanDb[id] => <<scanDb[id], scanDb'[id]>> \in ScanTransitions]_vars

C3_Witness ==
    \E a, b \in ScanIds :
        /\ scanDb[a] = "completed" /\ scanRun[a].pc = "done"
        /\ scanDb[b] = "error" /\ scanRun[b].raised

\* C4: a simulation run in which a step raised ends with committed status
\* failed, a non-null error_message, and no result (has_results = false).
C4_RaisedEndsFailed ==
    \A t \in SimIds :
        (SimEnded(t) /\ simRun[t].raised) =>
            /\ simDb[simRun[t].job].status = "failed"
            /\ simDb[simRun[t].job].error_message # NoMsg
            /\ ~StatusResponse(simRun[t].job).has_results

\* C5: a job in its failure state (simulation failed, scan error) has no
\* committed SimulationResult, Segmentation or Mesh row.
C5_FailedJobHasNoRecords ==
    /\ \A id \in SimIds : simDb[id].status = "failed" => resDb[id] = 0
    /\ \A id \in ScanIds : scanDb[id] = "error" => (segDb[id] = 0 /\ meshDb[id] = 0)

NonDecreasing(w) == \A i \in 1..Len(w) : \A j \in i..Len(w) : w[i] <= w[j]

\* C6: the progress values assigned to a job's record during one run are
\* non-decreasing, and a run that ends with the job completed wrote 1.0 last.
C6_ProgressMonotone ==
    \A t \in SimIds :
        /\ NonDecreasing(simRun[t].written)
        /\ (simRun[t].pc = "done" /\ ~simRun[t].raised) =>
              /\ simRun[t].written # <<>>
              /\ simRun[t].written[Len(simRun[t].written)] = 10
              /\ simDb[simRun[t].job].progress = 10

C6_Witness ==
    \E t \in SimIds :
        /\ simRun[t].pc = "done" /\ ~simRun[t].raised
        /\ simDb[simRun[t].job].status = "completed"
        /\ Len(simRun[t].written) = 7

\* C7: every status poll reports a numeric progress within [0, 1].
C7_PollProgressInRange ==
    lastPoll.id # 0 => lastPoll.progress \in 0..10

SimTerminal(t) ==
    /\ simRun[t].job # 0
    /\ simDb[simRun[t].job].status \in {"completed", "failed"}

\* C8: every job whose background run has been scheduled eventually has a
\* terminal committed status.
C8_EventuallyTerminal ==
    \A t \in SimIds : (simRun[t].pc = "scheduled") ~> SimTerminal(t)

C10_SegmentationNeverRaises ==
    \A t \in ScanIds : ~scanRun[t].seg.raised

RECURSIVE SumPercent(_, _)
SumPercent(regions, keys) ==
    IF keys = {} THEN 0
    ELSE LET k == CHOOSE x \in keys : TRUE
         IN  regions[k].volume_percent + SumPercent(regions, keys \ {k})

\* C11: for every mask, a mask with no foreground voxel included, the region
\* map returned by identify_stomach_regions has exactly the keys fundus, body
\* and antrum, and its volume_percent values sum to 100.
C11_RegionKeysAndPercent ==
    segCall.done =>
        /\ DOMAIN segCall.regions = RegionKeys
        /\ SumPercent(segCall.regions, DOMAIN segCall.regions) = 100

FemReturned == femCall.done /\ ~femCall.raised

\* C12: for every wall-thickness map, stapler height, stapler type and
\* tissue-stiffness map (finite numbers) for which run_simulation returns,
\* the leak_probability of the result lies in [0.01, 0.99].
C12_LeakProbabilityInRange ==
    FemReturned =>
        /\ Le(<<1, 100>>, femCall.result.leak_probability)
        /\ Le(femCall.result.leak_probability, <<99, 100>>)

\* a returned result whose stress term is capped at 1.0
C12_Witness ==
    /\ FemReturned
    /\ Le(<<50, 1>>, MaxStress(femCall.result.per_region))
    /\ femCall.result.leak_probability = Frac(58, 100)

ZoneOf(r) == {i \in DOMAIN femCall.result.failure_zones :
                 femCall.result.failure_zones[i].region = r}

\* yield_stress / (stress + 0.001) < bound (a fraction), for region r of the result
FactorBelow(r, bound) ==
    LET stress == femCall.result.per_region[r]
        yield_stress100 == DEFAULT_PROPERTIES[r].yield_stress
    IN  10 * yield_stress100 * stress[2] * bound[2]
            < bound[1] * (1000 * stress[1] + stress[2])

\* C14: a region is listed in failure_zones (once) exactly when
\* yield_stress / (stress + 0.001) < 1.5; its risk_level is high exactly
\* when that factor is < 1.0 and medium otherwise.
C14_FailureZones ==
    FemReturned =>
        \A r \in RegionKeys :
            /\ Cardinality(ZoneOf(r)) = (IF FactorBelow(r, <<3, 2>>) THEN 1 ELSE 0)
            /\ \A i \in ZoneOf(r) :
                  femCall.result.failure_zones[i].risk_level =
                      (IF FactorBelow(r, <<1, 1>>) THEN "high" ELSE "medium")

\* one result with a high zone at stress >= 0.5 against yield stress 0.35
\* (body), a medium zone and a region that is not listed
C14_Witness ==
    /\ FemReturned
    /\ \E i \in ZoneOf("body") :
          /\ femCall.result.failure_zones[i].risk_level = "high"
          /\ Le(<<1, 2>>, femCall.result.per_region["body"])
    /\ \E r \in RegionKeys : \E i \in ZoneOf(r) :
          femCall.result.failure_zones[i].risk_level = "medium"
    /\ \E r \in RegionKeys : ZoneOf(r) = {}

\* the stapler of STAPLER_OPTIONS nearest to 0.65 x mean thickness, the first
\* declared one among the nearest
NearestToOptimal(avg_thickness) ==
    LET d(i) == Abs(20 * STAPLER_OPTIONS[i].height * avg_thickness[2] - 13 * avg_thickness[1])
        i == CHOOSE k \in DOMAIN STAPLER_OPTIONS :
                /\ \A j \in DOMAIN STAPLER_OPTIONS : d(k) <= d(j)
                /\ \A j \in 1 .. k - 1 : d(j) > d(k)
    IN  STAPLER_OPTIONS[i]

\* C15: for every mean wall thickness, the recommended_stapler of a
\* simulation result, and the stapler named by its "consider using"
\* recommendation, is the StaplerRecommender choice for that mean: the
\* catalog stapler minimising |closed height - 0.65 x mean thickness|.
C15_SimulatorAgreesWithRecommender ==
    FemReturned =>
        LET chosen == NearestToOptimal(femCall.result.avg_thickness).name
            recs == femCall.result.recommendations
        IN  /\ femCall.result.recommended_stapler = chosen
            /\ \A i \in DOMAIN recs :
                  recs[i].kind = "consider_using" => recs[i].stapler = chosen
            /\ (\E i \in DOMAIN recs : recs[i].kind = "consider_using")
                  <=> chosen # femCall.args.stapler_type

MeanThicknessOf(call) ==
    IF DOMAIN call.wall_thickness = {} THEN <<40, 1>> ELSE Mean(call.wall_thickness)

\* distance |height - 0.65 x mean|, times 20 x the mean's denominator
Distance(st, avg) == Abs(20 * st.height * avg[2] - 13 * avg[1])

\* C16: every recommendation returns a catalog stapler with the smallest
\* |height - 0.65 x mean thickness|, and no stapler declared before it in
\* the catalog is as near.
C16_NearestFirstDeclared ==
    \A c \in DOMAIN recLog :
        LET avg == MeanThicknessOf(recLog[c])
        IN  \E i \in DOMAIN STAPLER_OPTIONS :
               /\ recLog[c].result.stapler = STAPLER_OPTIONS[i].name
               /\ recLog[c].result.height_mm = STAPLER_OPTIONS[i].height
               /\ \A j \in DOMAIN STAPLER_OPTIONS :
                     Distance(STAPLER_OPTIONS[i], avg) <= Distance(STAPLER_OPTIONS[j], avg)
               /\ \A j \in 1 .. i - 1 :
                     Distance(STAPLER_OPTIONS[j], avg) > Distance(STAPLER_OPTIONS[i], avg)

\* a call at which two catalog staplers are equally near, answered with the
\* one declared first
C16_Witness ==
    \E c \in DOMAIN recLog :
        LET avg == MeanThicknessOf(recLog[c])
        IN  \E i, j \in DOMAIN STAPLER_OPTIONS :
               /\ i < j
               /\ Distance(STAPLER_OPTIONS[i], avg) = Distance(STAPLER_OPTIONS[j], avg)
               /\ \A k \in DOMAIN STAPLER_OPTIONS :
                     Distance(STAPLER_OPTIONS[i], avg) <= Distance(STAPLER_OPTIONS[k], avg)
               /\ recLog[c].result.stapler = STAPLER_OPTIONS[i].name

\* catalog staplers other than the chosen one whose tissue range contains
\* half the mean thickness, in catalog order
CandidatesOf(call) ==
    LET avg == MeanThicknessOf(call)
    IN  SelectSeq(STAPLER_OPTIONS, LAMBDA st :
            /\ st.name # call.result.stapler
            /\ 2 * st.tissue_range[1] * avg[2] <= avg[1]
            /\ avg[1] <= 2 * st.tissue_range[2] * avg[2])

\* C17: the alternatives of every recommendation are at most two, never
\* include the chosen stapler, are the first candidates in catalog order
\* whose tissue range contains mean_thickness / 2, and all have suitability
\* "acceptable".
C17_Alternatives ==
    \A c \in DOMAIN recLog :
        LET alts == recLog[c].result.alternatives
            cands == CandidatesOf(recLog[c])
        IN  /\ Len(alts) <= 2
            /\ Len(alts) = (IF Len(cands) < 2 THEN Len(cands) ELSE 2)
            /\ \A i \in DOMAIN alts :
                  /\ alts[i].name # recLog[c].result.stapler
                  /\ alts[i].name = cands[i].name
                  /\ alts[i].height_mm = cands[i].height
                  /\ alts[i].suitability = "acceptable"

\* a call with three candidates, answered with the first two
C17_Witness ==
    \E c \in DOMAIN recLog :
        /\ Len(CandidatesOf(recLog[c])) = 3
        /\ Len(recLog[c].result.alternatives) = 2

RiskDone == riskCall.done

\* C13: for every wall-thickness map with thicknesses of 1.0 to 8.0 mm,
\* stapler height of 2.5 to 5.5 mm, BMI, diabetes flag and previous-surgery flag, the
\* probability returned by predict is strictly between 0 and 1: the sigmoid
\* is neither 0.0 nor 1.0 in double precision.
C13_ProbabilityStrictlyInside ==
    RiskDone => riskCall.result.probability \in {"(0, 0.1)", "[0.1, 0.3)", "[0.3, 1)"}

\* the call with the largest score of the domain: walls of 1.0 mm under the
\* 5.5 mm stapler, BMI above 40, diabetes and previous surgery
C13_Witness ==
    /\ RiskDone
    /\ riskCall.args.wall_thickness = [r \in RegionKeys |-> <<10, 1>>]
    /\ riskCall.args.stapler_height_mm = 55
    /\ riskCall.args.patient_bmi = 450
    /\ riskCall.args.diabetes /\ riskCall.args.previous_surgery
    /\ riskCall.result.probability = "[0.3, 1)"

KindsOf(recs) == [i \in DOMAIN recs |-> recs[i].kind]

HighRiskRegions ==
    LET high == SelectSeq(femCall.result.failure_zones, LAMBDA fz : fz.risk_level = "high")
    IN  [i \in DOMAIN high |-> high[i].region]

\* the entries C18 asks for, in its order
ExpectedKinds ==
    (IF Lt(<<3, 10>>, femCall.result.leak_probability) THEN <<"buttress">> ELSE <<>>)
    \o (IF Lt(<<5, 10>>, femCall.result.leak_probability) THEN <<"oversew">> ELSE <<>>)
    \o (IF Len(HighRiskRegions) > 0 THEN <<"caution">> ELSE <<>>)
    \o (IF femCall.result.recommended_stapler # femCall.args.stapler_type
        THEN <<"consider_using">> ELSE <<>>)

\* C18: the recommendations of a simulation are never empty; they hold, in
\* this order, the buttress entry iff leak_probability > 0.3, the oversewing
\* entry iff leak_probability > 0.5, a caution entry naming exactly the
\* high-risk failure-zone regions iff there is one, and an entry suggesting
\* the recommended stapler iff it differs from the simulated type; the
\* "within safe limits" entry is there iff none of the four is, and is then
\* the only entry.
C18_Recommendations ==
    FemReturned =>
        LET recs == femCall.result.recommendations
        IN  /\ Len(recs) > 0
            /\ KindsOf(recs) = (IF Len(ExpectedKinds) = 0
                                THEN <<"within_safe_limits">> ELSE ExpectedKinds)
            /\ \A i \in DOMAIN recs :
                  /\ recs[i].kind = "caution" => recs[i].regions = HighRiskRegions
                  /\ recs[i].kind = "consider_using"
                        => recs[i].stapler = femCall.result.recommended_stapler

\* a result in which all four entries are present
C18_Witness ==
    /\ FemReturned
    /\ KindsOf(femCall.result.recommendations)
          = <<"buttress", "oversew", "caution", "consider_using">>

\* a result with the "within safe limits" entry alone
C18_WitnessSafe ==
    /\ FemReturned
    /\ KindsOf(femCall.result.recommendations) = <<"within_safe_limits">>

Fallback == "No significant risk factors identified"

Contains(seq, x) == \E i \in DOMAIN seq : seq[i] = x

\* some rule of _identify_factors applies to the features of the call
RuleFired ==
    LET f == riskCall.features
    IN  \/ Lt(f.compression_ratio, <<1, 2>>) \/ Lt(<<4, 5>>, f.compression_ratio)
        \/ riskCall.args.diabetes
        \/ riskCall.args.previous_surgery
        \/ Lt(<<1, 5>>, f.stapler_mismatch)
        \/ Lt(<<1, 25>>, f.wall_thickness_variation_sq)
        \/ f.bmi[1] > 0 /\ Lt(<<1, 10>>, f.bmi)

\* C19: the contributing factors are never empty; the fallback entry is
\* present iff no rule fired and is then the only entry; for BMI > 40,
\* diabetes, previous surgery and stapler mismatch > 0.2 the list has at
\* least four named entries and no fallback entry.
C19_Factors ==
    RiskDone =>
        LET factors == riskCall.result.factors
        IN  /\ Len(factors) > 0
            /\ Contains(factors, Fallback) <=> ~RuleFired
            /\ Contains(factors, Fallback) => factors = <<Fallback>>
            /\ (/\ riskCall.args.patient_bmi # NULL
                /\ riskCall.args.patient_bmi > 400
                /\ riskCall.args.diabetes
                /\ riskCall.args.previous_surgery
                /\ Lt(<<1, 5>>, riskCall.features.stapler_mismatch))
                  => /\ Len(factors) >= 4
                     /\ ~Contains(factors, Fallback)
                     /\ Contains(factors, "Elevated BMI")
                     /\ Contains(factors, "Diabetes (impairs healing)")
                     /\ Contains(factors, "Previous abdominal surgery")
                     /\ Contains(factors, "Suboptimal stapler selection")

\* the call of the claim's example: BMI 45, diabetes, previous surgery and a
\* stapler mismatch above 0.2
C19_Witness ==
    /\ RiskDone
    /\ riskCall.args.patient_bmi = 450
    /\ riskCall.args.diabetes /\ riskCall.args.previous_surgery
    /\ Lt(<<1, 5>>, riskCall.features.stapler_mismatch)
    /\ Len(riskCall.result.factors) >= 4

\* a call to which no rule applies
C19_WitnessFallback ==
    /\ RiskDone
    /\ riskCall.result.factors = <<Fallback>>
AfterSetup == {}
AfterCompression == {"avg_thickness", "compression_ratio"}
AfterStress == AfterCompression \cup {"stress_per_region", "strain_per_region"}
AfterDistribution == AfterStress \cup {"stress_distribution"}
AfterResults == AfterDistribution \cup {"failure_zones", "leak_prob", "recommendations",
                                        "recommended_stapler"}

FemRunReturned == femCall.pc = "returned" /\ femCall.progress_callback

\* C22 as stated: a run that returns has invoked its callback exactly five
\* times, with 0.2, 0.4, 0.6, 0.8, 1.0 in that order, 0.2 after setup, 0.4 after
\* the compression ratio, 0.6 after the per-region stress, 0.8 after both the
\* stress distribution and the failure zones, 1.0 after every result field.
C22_Original ==
    FemRunReturned =>
        /\ femCall.emitted = <<2, 4, 6, 8, 10>>
        /\ femCall.known[1] = AfterSetup
        /\ femCall.known[2] = AfterCompression
        /\ femCall.known[3] = AfterStress
        /\ femCall.known[4] = AfterDistribution \cup {"failure_zones"}
        /\ femCall.known[5] = AfterResults

\* C22: a run that returns has invoked its callback exactly five times, with
\* 0.2, 0.4, 0.6, 0.8, 1.0 in that order: 0.2 after setup, 0.4 after the
\* compression ratio, 0.6 after the per-region stress and strain, 0.8 after the
\* stress distribution and before the failure zones are identified, 1.0 after
\* every result field; a run that raises has invoked it three times, with
\* 0.2, 0.4, 0.6.
C22_ProgressCheckpoints ==
    /\ FemRunReturned =>
        /\ femCall.emitted = <<2, 4, 6, 8, 10>>
        /\ femCall.known = <<AfterSetup, AfterCompression, AfterStress,
                             AfterDistribution, AfterResults>>
        /\ "failure_zones" \notin femCall.known[4]
    /\ (femCall.pc = "raised" /\ femCall.progress_callback) =>
        /\ femCall.emitted = <<2, 4, 6>>
        /\ femCall.known = <<AfterSetup, AfterCompression, AfterStress>>

\* a run with a callback has returned
C22_Witness == FemRunReturned /\ Len(femCall.emitted) = 5

SameFrac(a, b) == a[1] * b[2] = b[1] * a[2]

\* elastic modulus of a region, in hundredths of a MPa
ElasticModulus(r) == CASE r = "fundus" -> 5 [] r = "body" -> 6 [] r = "antrum" -> 8

\* C24: for each region, the strain of a returned simulation is
\* (thickness - staple_height) / thickness when thickness > staple_height and
\* 0.1 otherwise, its stress is E(region) x stiffness(region) x strain x 100,
\* and max_von_mises_stress and max_principal_strain are the maxima of the
\* per-region stresses and strains.
C24_StrainAndStress ==
    FemReturned =>
        LET a == femCall.args
            res == femCall.result
            t(r) == IF r \in DOMAIN a.wall_thickness THEN a.wall_thickness[r] ELSE 40
            k(r) == IF r \in DOMAIN a.tissue_stiffness THEN a.tissue_stiffness[r] ELSE 6
            strain(r) == IF t(r) > a.stapler_height_mm
                         THEN <<t(r) - a.stapler_height_mm, t(r)>>
                         ELSE <<1, 10>>
            \* E / 100 x stiffness / 10 x strain x 100
            stress(r) == <<ElasticModulus(r) * k(r) * strain(r)[1], 10 * strain(r)[2]>>
        IN  /\ \A r \in RegionKeys :
                  /\ SameFrac(res.strain_per_region[r], strain(r))
                  /\ SameFrac(res.per_region[r], stress(r))
                  /\ Le(res.per_region[r], res.max_von_mises_stress)
                  /\ Le(res.strain_per_region[r], res.max_principal_strain)
            /\ \E r \in RegionKeys : SameFrac(res.max_von_mises_stress, stress(r))
            /\ \E r \in RegionKeys : SameFrac(res.max_principal_strain, strain(r))

\* a returned simulation with one region thicker than the staple and one not,
\* whose largest stress and largest strain lie in different regions
C24_Witness ==
    /\ FemReturned
    /\ \E r, q \in RegionKeys :
          /\ r \in DOMAIN femCall.args.wall_thickness
          /\ femCall.args.wall_thickness[r] > femCall.args.stapler_height_mm
          /\ femCall.args.wall_thickness[q] <= femCall.args.stapler_height_mm
    /\ \E r, q \in RegionKeys :
          /\ r # q
          /\ femCall.result.max_von_mises_stress = femCall.result.per_region[r]
          /\ femCall.result.max_principal_strain = femCall.result.strain_per_region[q]
          /\ femCall.result.max_principal_strain # femCall.result.strain_per_region[r]

\* mean of the three regional thicknesses of a stored map
MeanOfRegions(wall_thickness) ==
    LET sum == AddFrac(wall_thickness["fundus"],
                       AddFrac(wall_thickness["body"], wall_thickness["antrum"]))
    IN  Frac(sum[1], 3 * sum[2])

\* C25: the regions, wall_thickness and material_properties maps of a
\* segmentation have exactly the keys fundus, body and antrum, and the mean
\* thickness the risk scorer and the stapler recommender compute from the
\* stored mesh is the mean of the three regional thicknesses.
C25_RegionMaps ==
    LET maps == riskCall.maps
        mean == MeanOfRegions(maps.wall_thickness)
    IN  /\ DOMAIN maps.regions = RegionKeys
        /\ DOMAIN maps.wall_thickness = RegionKeys
        /\ DOMAIN maps.material_properties = RegionKeys
        /\ riskCall.risk.called =>
              \* compression_ratio = stapler_height_mm / mean
              SameFrac(riskCall.risk.features.compression_ratio,
                       <<riskCall.risk.stapler_height_mm * mean[2], mean[1]>>)
        /\ riskCall.rec.called =>
              riskCall.rec.result.reasoning.avg_thickness_1f
                  = RoundHalfEven(mean[1], mean[2])

\* the foreground of the mask of the call
ZMin == MinOf({v[1] : v \in segCall.mask})
ZMax == MaxOf({v[1] : v \in segCall.mask})

\* floor(z_min + tenths / 10 x (z_max - z_min))
Boundary(tenths) == (10 * ZMin + tenths * (ZMax - ZMin)) \div 10

\* C26: for a mask whose foreground spans z_min .. z_max, the z-ranges are
\* fundus [z_min, b1], body [b1, b2], antrum [b2, z_max] with
\* b1 = floor(z_min + 0.3 (z_max - z_min)) and
\* b2 = floor(z_min + 0.7 (z_max - z_min)), and z_min <= b1 <= b2 <= z_max.
C26_RegionRanges ==
    (segCall.done /\ segCall.mask # {}) =>
        LET b1 == Boundary(3)
            b2 == Boundary(7)
        IN  /\ segCall.regions["fundus"].z_range = <<ZMin, b1>>
            /\ segCall.regions["body"].z_range = <<b1, b2>>
            /\ segCall.regions["antrum"].z_range = <<b2, ZMax>>
            /\ ZMin <= b1 /\ b1 <= b2 /\ b2 <= ZMax

\* C27: for every input with positive mean wall thickness, the weighted
\* score is at least 0.152, the probability at least 0.3, and the risk level
\* returned is "high", never "low" or "medium".
C27_AlwaysHigh ==
    RiskDone =>
        /\ Score(riskCall.features) >= 152
        /\ riskCall.result.probability \in {"[0.3, 1)", "1.0"}
        /\ riskCall.result.risk_level = "high"

\* the least score: a stapler of 0.7 x the mean thickness, uniform wall, no
\* patient factor
C27_Witness ==
    /\ RiskDone
    /\ Score(riskCall.features) = 152
    /\ riskCall.result.risk_level = "high"

C29_MeshCounts ==
    (segCall.done /\ ~segCall.raised) =>
        /\ segCall.mesh.vertex_count = Len(segCall.mesh.vertices)
        /\ segCall.mesh.face_count = Len(segCall.mesh.faces)

====
